---------------------------- MODULE Spec2Model ----------------------------
(***************************************************************************)
(* A model of squema.py: the field table MetaSquema builds for a class,    *)
(* the life of one Squema instance of that class (construction, attribute  *)
(* and mapping-style writes, deletion, update, copy, rendering) and the    *)
(* encoder resolution of Squema.encode.                                    *)
(*                                                                         *)
(* Python values are modelled by names: "i0", "i1" are the ints 0 and 1,   *)
(* "s1", "sd", "sU" the strings "1", "1999-12-31", "UNSET",                *)
(* "d1" the date 1999-12-31, "True" the bool, "ent" an Entity instance,    *)
(* "ch" a member of the Enum Choice, "t1" a member of the IntEnum TinyInt, *)
(* "obj" a plain object().  An ordered mapping (OrderedDict) is a sequence *)
(* of [k, v] records.                                                      *)
(***************************************************************************)
EXTENDS Integers, Sequences, FiniteSets, TLC

\* Bounds of the model: the number of positional values, of named values,
\* and of keys of an update() mapping that a call may supply.
MaxArgs == 3
MaxKw == 2
MaxData == 2

UNSET == "UNSET"

-----------------------------------------------------------------------------
(* Ordered mappings *)

OdKeys(od) == [i \in 1..Len(od) |-> od[i].k]

OdKeySet(od) == {od[i].k : i \in 1..Len(od)}

OdHas(od, key) == key \in OdKeySet(od)

OdGet(od, key) == od[CHOOSE i \in 1..Len(od) : od[i].k = key].v

\* od[key] = val: an existing key keeps its position, a new key is appended.
OdSet(od, key, val) ==
    IF OdHas(od, key)
    THEN [i \in 1..Len(od) |-> IF od[i].k = key THEN [k |-> key, v |-> val] ELSE od[i]]
    ELSE Append(od, [k |-> key, v |-> val])

RECURSIVE OdUpdate(_, _)
\* od.update(other)
OdUpdate(od, other) ==
    IF other = << >> THEN od
    ELSE OdUpdate(OdSet(od, Head(other).k, Head(other).v), Tail(other))

\* {k: v for k, v in od if k in keep}
OdFilterIn(od, keep) == SelectSeq(od, LAMBDA e : e.k \in keep)

\* {k: v for k, v in od if k not in drop}
OdFilterOut(od, drop) == SelectSeq(od, LAMBDA e : e.k \notin drop)

Reverse(s) == [i \in 1..Len(s) |-> s[Len(s) + 1 - i]]

-----------------------------------------------------------------------------
(* The Python values and types the model uses *)

TypeOf(v) ==
    CASE v \in {"i0", "i1"} -> "int"
      [] v \in {"s1", "sd", "sU"} -> "str"
      [] v = "d1" -> "date"
      [] v = "True" -> "bool"
      [] v = UNSET -> "UNSET"
      [] v = "ent" -> "Entity"
      [] v = "ch" -> "Choice"
      [] v = "t1" -> "TinyInt"
      [] OTHER -> "object"

\* t.__bases__
DirectBases(t) ==
    CASE t = "object" -> << >>
      [] t = "bool" -> <<"int">>
      [] t = "Entity" -> <<"Squema">>
      [] t = "Choice" -> <<"Enum">>
      [] t = "TinyInt" -> <<"IntEnum">>
      [] t = "IntEnum" -> <<"int", "ReprEnum">>
      [] t = "ReprEnum" -> <<"Enum">>
      [] OTHER -> <<"object">>

Range(s) == {s[i] : i \in 1..Len(s)}

RECURSIVE Ancestors(_)
\* every type reachable from t through __bases__, at any depth
Ancestors(t) ==
    Range(DirectBases(t)) \cup UNION {Ancestors(b) : b \in Range(DirectBases(t))}

IsInstance(v, t) == t \in ({TypeOf(v)} \cup Ancestors(TypeOf(v)))

\* int(v): a ValueError for a string that is no number, a TypeError for a
\* value that is neither a string nor a number.
IntOf(v) ==
    CASE TypeOf(v) = "int" -> [err |-> "none", val |-> v]
      [] v = "True" -> [err |-> "none", val |-> "i1"]
      [] v = "s1" -> [err |-> "none", val |-> "i1"]
      [] TypeOf(v) = "str" -> [err |-> "ValueError", val |-> UNSET]
      [] OTHER -> [err |-> "TypeError", val |-> UNSET]

\* str(v), for the values the model converts: strings, 1, the date, UNSET
StrOf(v) ==
    CASE TypeOf(v) = "str" -> [err |-> "none", val |-> v]
      [] v = "i1" -> [err |-> "none", val |-> "s1"]
      [] v = "d1" -> [err |-> "none", val |-> "sd"]
      [] OTHER -> [err |-> "none", val |-> "sU"]

\* unit(value) for a concrete type
Call(unit, v) ==
    CASE unit = "int" -> IntOf(v)
      [] unit = "str" -> StrOf(v)
      [] OTHER -> [err |-> "TypeError", val |-> UNSET]

\* parser(date): the matcher; regex.match raises TypeError on a non-string,
\* and a string that does not match gives the ValueError.
ParseDate(v) ==
    CASE TypeOf(v) # "str" -> [err |-> "TypeError", val |-> UNSET]
      [] v = "sd" -> [err |-> "none", val |-> "d1"]
      [] OTHER -> [err |-> "ValueError", val |-> UNSET]

DefaultEncoders ==
    {"UUID", "Decimal", "set", "frozenset", "GeneratorType", "date", "time",
     "datetime", "Enum", "bytes", "timedelta"}

DefaultDecoders == {"date", "time", "datetime"}

-----------------------------------------------------------------------------
(* The class definitions: what the class statement hands to MetaSquema *)

Classes == {"Model", "Base", "Sub"}

\* class Model(Squema):   number: int = 0;  other = True;  __string__: str
\* class Base(Squema):    number: int
\* class Sub(Base):       when: date;  number: int = 1
ClassBases(c) ==
    CASE c = "Sub" -> <<"Base">>
      [] OTHER -> <<"Squema">>

\* namespace['__annotations__'], in declaration order
ClassAnnotations(c) ==
    CASE c = "Model" -> <<[k |-> "number", v |-> "int"], [k |-> "__string__", v |-> "str"]>>
      [] c = "Base" -> <<[k |-> "number", v |-> "int"]>>
      [] c = "Sub" -> <<[k |-> "when", v |-> "date"], [k |-> "number", v |-> "int"]>>
      [] OTHER -> << >>

\* the names the class body assigns, in order
ClassNamespace(c) ==
    CASE c = "Model" -> <<[k |-> "number", v |-> "i0"], [k |-> "other", v |-> "True"]>>
      [] c = "Sub" -> <<[k |-> "number", v |-> "i1"]>>
      [] OTHER -> << >>

\* issubclass(base, Squema) and base != Squema
IsSquemaSubclass(base) == base \in Classes \cup {"Entity"}

RECURSIVE AnnotationLoop(_, _, _)
\* for key, value in annotations.items(): ...
AnnotationLoop(fields, annotations, namespace) ==
    IF annotations = << >> THEN fields
    ELSE LET key == Head(annotations).k
             next == IF OdHas(namespace, key)
                     THEN OdSet(fields, key, OdGet(namespace, key))
                     ELSE IF ~OdHas(fields, key)
                          THEN OdSet(fields, key, UNSET)
                          ELSE fields
         IN AnnotationLoop(next, Tail(annotations), namespace)

RECURSIVE MetaSquemaFields(_)
RECURSIVE InheritFields(_, _)
\* for base in reversed(bases): fields.update(base.__fields__)
InheritFields(fields, bs) ==
    IF bs = << >> THEN fields
    ELSE InheritFields(IF IsSquemaSubclass(Head(bs))
                       THEN OdUpdate(fields, MetaSquemaFields(Head(bs)))
                       ELSE fields,
                       Tail(bs))

\* cls.__fields__ as MetaSquema.__new__ builds it
MetaSquemaFields(c) ==
    AnnotationLoop(InheritFields(<< >>, Reverse(ClassBases(c))),
                   ClassAnnotations(c), ClassNamespace(c))

RECURSIVE MetaSquemaAnnotations(_)
RECURSIVE InheritTypes(_, _)
\* for base in reversed(bases): types.update(base.__annotations__)
InheritTypes(types, bs) ==
    IF bs = << >> THEN types
    ELSE InheritTypes(IF IsSquemaSubclass(Head(bs))
                      THEN OdUpdate(types, MetaSquemaAnnotations(Head(bs)))
                      ELSE types,
                      Tail(bs))

\* cls.__annotations__ = {**types, **annotations}
MetaSquemaAnnotations(c) ==
    OdUpdate(InheritTypes(<< >>, Reverse(ClassBases(c))), ClassAnnotations(c))

\* the attributes left on the class: {k: v for k, v in namespace if k not in fields}
MetaSquemaNamespace(c) ==
    OdFilterOut(ClassNamespace(c), OdKeySet(MetaSquemaFields(c)))

RECURSIVE ClassAttributes(_)
\* the plain attributes an instance finds on its class or on a base of it
ClassAttributes(c) ==
    IF c \notin Classes THEN << >>
    ELSE OdUpdate(ClassAttributes(Head(ClassBases(c))), MetaSquemaNamespace(c))

-----------------------------------------------------------------------------
(* The state *)

VARIABLES
    cls,          \* the class of the instance
    strict,       \* cls.__config__.strict
    mutable,      \* cls.__config__.mutable
    encoders,     \* the types cls.__config__.encoders has an encoder for
    pc,           \* "class": no instance yet; "live": construction returned;
                  \* "failed": construction raised
    values,       \* the instance's __values__
    extras,       \* the instance's __dict__ without __values__
    last,         \* the last call: its operation and outcome (a constructor
                  \* call's arguments, encode's argument)
    sawUnset      \* a call of __getval__ or of encode has received UNSET

vars == <<cls, strict, mutable, encoders, pc, values, extras, last, sawUnset>>

\* A name absent from the instance's __dict__
Missing == "<missing>"

\* The name, not a declared field of any class, that calls use
Undeclared == {"extra"}

\* The values a caller passes: never UNSET itself
RawVals == {"s1", "sd"}

\* __fields__ and __annotations__ of each class, built once, when the class
\* is defined
FieldTable == [c \in Classes |-> MetaSquemaFields(c)]

TypeTable == [c \in Classes |-> MetaSquemaAnnotations(c)]

Fields == FieldTable[cls]

Names == OdKeySet(Fields) \cup Undeclared

NoCall ==
    [op |-> "", call |-> << >>, arg |-> "", err |-> "none", via |-> "", enc |-> "",
     res |-> ""]

Annotations == TypeTable[cls]

-----------------------------------------------------------------------------
(* Squema: coercion, construction, reads *)

\* type(unit) is type
IsPlainType(unit) == unit \in {"int", "str", "date", "bool"}

\* __getval__(key, value).  The annotations of the modelled classes are all
\* concrete types, so the branches for a nested Squema and for a converter
\* function end in the final else.
GetVal(key, value) ==
    IF ~OdHas(Annotations, key) THEN [err |-> "KeyError", val |-> UNSET]
    ELSE LET unit == OdGet(Annotations, key) IN
         IF IsInstance(value, unit) THEN [err |-> "none", val |-> value]
         ELSE IF unit \in DefaultDecoders THEN ParseDate(value)
         ELSE IF IsPlainType(unit)
              THEN LET r == Call(unit, value) IN
                   IF r.err = "ValueError"
                   THEN [err |-> "ValueError: Expected type", val |-> UNSET]
                   ELSE r
         ELSE [err |-> "TypeError: No decoder defined", val |-> UNSET]

\* dict(zip(self.__values__.keys(), args))
Zip(keys, args) ==
    [i \in 1..(IF Len(keys) < Len(args) THEN Len(keys) ELSE Len(args)) |->
        [k |-> keys[i], v |-> args[i]]]

RECURSIVE InitLoop(_, _, _)
\* for key, v in kwargs.items(): ...   saw: __getval__ was handed UNSET
InitLoop(vals, kwargs, saw) ==
    IF kwargs = << >> THEN [values |-> vals, err |-> "none", saw |-> saw]
    ELSE LET key == Head(kwargs).k
             v == Head(kwargs).v
         IN IF OdHas(vals, key)
            THEN LET r == GetVal(key, v) IN
                 IF r.err # "none"
                 THEN [values |-> vals, err |-> r.err,
                       saw |-> saw \/ v = UNSET]
                 ELSE InitLoop(OdSet(vals, key, r.val), Tail(kwargs), saw \/ v = UNSET)
            ELSE IF strict
                 THEN [values |-> vals, err |-> "AttributeError: not a valid attribute",
                       saw |-> saw]
                 ELSE InitLoop(vals, Tail(kwargs), saw)

\* the [k for k, v in self.__values__.items() if v is UNSET] of __init__
Empty(vals) == {vals[i].k : i \in {j \in 1..Len(vals) : vals[j].v = UNSET}}

\* __init__ without the final check for fields left UNSET
SquemaInitUnchecked(c, args, kwargs) ==
    IF args # << >> /\ kwargs # << >>
    THEN [values |-> << >>, err |-> "AssertionError", saw |-> FALSE]
    ELSE LET seeded == MetaSquemaFields(c) IN
         IF args # << >> /\ strict /\ Len(args) > Len(seeded)
         THEN [values |-> seeded, err |-> "ValueError: Too many arguments",
               saw |-> FALSE]
         ELSE InitLoop(seeded,
                       IF args # << >> THEN Zip(OdKeys(seeded), args) ELSE kwargs,
                       FALSE)

\* __init__(*args, **kwargs) on a fresh instance of class c: the instance's
\* __values__ when it returns or raises, and the error raised, if any.
SquemaInit(c, args, kwargs) ==
    IF args # << >> /\ kwargs # << >>
    THEN [values |-> << >>, err |-> "AssertionError", saw |-> FALSE]
    ELSE LET seeded == MetaSquemaFields(c) IN
         IF args # << >> /\ strict /\ Len(args) > Len(seeded)
         THEN [values |-> seeded, err |-> "ValueError: Too many arguments",
               saw |-> FALSE]
         ELSE LET r == InitLoop(seeded,
                                IF args # << >> THEN Zip(OdKeys(seeded), args) ELSE kwargs,
                                FALSE)
              IN IF r.err = "none" /\ strict /\ Empty(r.values) # {}
                 THEN [r EXCEPT !.err = "ValueError: Missing value"]
                 ELSE r

\* items() if the strict branch handed back the items of __values__
ItemsOfView(vals) ==
    IF strict THEN vals
    ELSE SelectSeq(vals, LAMBDA e : e.v # UNSET)

\* items(): a generator function, so the strict branch's
\* "return self.__values__.items()" ends the generator without yielding.
ItemsOf(vals) ==
    IF strict THEN << >>
    ELSE SelectSeq(vals, LAMBDA e : e.v # UNSET)

Items == ItemsOf(values)

\* keys(), __iter__ and so "key in instance"
KeysOf(vals) == OdKeys(ItemsOf(vals))

Keys == KeysOf(values)

\* __repr__: the class name and the items
Repr(c, vals) == [name |-> c, items |-> ItemsOf(vals)]

\* __len__
LengthOf(vals) == Len(vals)

Length == LengthOf(values)

\* __getattr__(key), the fallback of attribute lookup, on an instance whose
\* __values__ is vals
DunderGetAttrOf(vals, key) ==
    IF OdHas(vals, key)
    THEN [err |-> "none", val |-> OdGet(vals, key)]
    ELSE [err |-> "AttributeError: is not an attribute", val |-> UNSET]

\* instance.key: the instance's __dict__, then the class, then __getattr__
AttrReadOf(vals, dict, key) ==
    IF key \in DOMAIN dict /\ dict[key] # Missing
    THEN [err |-> "none", val |-> dict[key]]
    ELSE IF OdHas(ClassAttributes(cls), key)
         THEN [err |-> "none", val |-> OdGet(ClassAttributes(cls), key)]
         ELSE DunderGetAttrOf(vals, key)

AttrRead(key) == AttrReadOf(values, extras, key)

\* __getitem__(key)
GetItemOf(vals, key) ==
    IF OdHas(vals, key) THEN DunderGetAttrOf(vals, key)
    ELSE [err |-> "KeyError: is not a key", val |-> UNSET]

GetItem(key) == GetItemOf(values, key)

-----------------------------------------------------------------------------
(* Squema.encode and the rendering that calls it *)

\* bases(item): yields item.__bases__; the generator the inner bases(base)
\* call makes is dropped, so nothing deeper is yielded.
BasesWalk(item) == DirectBases(item)

\* encoders[t](value) for the built-in encoders the model's values reach
ApplyEncoder(t, v) ==
    CASE t = "date" -> StrOf(v).val
      [] t = "Enum" -> "i1"
      [] OTHER -> "encoded"

\* encode(value): via is the branch that answered, enc the registered type
EncodeOf(v) ==
    LET t == TypeOf(v) IN
    IF t \in encoders
    THEN [err |-> "none", via |-> "exact", enc |-> t, res |-> ApplyEncoder(t, v)]
    ELSE IF IsInstance(v, "Squema")
         THEN [err |-> "none", via |-> "schema", enc |-> "", res |-> "dict(items)"]
         ELSE LET hit == SelectSeq(BasesWalk(t), LAMBDA b : b \in encoders) IN
              IF hit # << >>
              THEN [err |-> "none", via |-> "base", enc |-> Head(hit),
                    res |-> ApplyEncoder(Head(hit), v)]
              ELSE [err |-> "TypeError: No encoder provided", via |-> "", enc |-> "",
                    res |-> ""]

\* what json.dumps serialises itself, without calling default
JsonNative(v) ==
    \/ IsInstance(v, "int")
    \/ IsInstance(v, "str")

RECURSIVE DumpsCalls(_)
\* dumps(dict(items), default=encode): the values handed to encode, in order,
\* up to and including the first one encode rejects
DumpsCalls(items) ==
    IF items = << >> THEN << >>
    ELSE LET v == Head(items).v IN
         IF JsonNative(v) THEN DumpsCalls(Tail(items))
         ELSE IF EncodeOf(v).err # "none" THEN <<v>>
         ELSE <<v>> \o DumpsCalls(Tail(items))

\* __str__: the error dumps raises, if any, and the calls of encode it made
StrOfInstance ==
    LET calls == DumpsCalls(Items) IN
    [calls |-> calls,
     err |-> IF calls # << >> /\ EncodeOf(calls[Len(calls)]).err # "none"
             THEN EncodeOf(calls[Len(calls)]).err
             ELSE "none"]

-----------------------------------------------------------------------------
(* Squema: writes *)

\* __setattr__ without the test of __config__.mutable
SetAttrOfUnguarded(key, value) ==
    IF OdHas(values, key)
    THEN LET r == GetVal(key, value) IN
         [values |-> IF r.err = "none" THEN OdSet(values, key, r.val) ELSE values,
          extras |-> extras, err |-> r.err, saw |-> value = UNSET]
    ELSE IF ~strict
         THEN [values |-> values, extras |-> [extras EXCEPT ![key] = value],
               err |-> "none", saw |-> FALSE]
         ELSE [values |-> values, extras |-> extras,
               err |-> "ValueError: is not a field", saw |-> FALSE]

\* __setattr__(key, value): the __values__ and __dict__ it leaves, its error
SetAttrOf(key, value) ==
    IF OdHas(values, key)
    THEN IF mutable
         THEN LET r == GetVal(key, value) IN
              [values |-> IF r.err = "none" THEN OdSet(values, key, r.val) ELSE values,
               extras |-> extras, err |-> r.err, saw |-> value = UNSET]
         ELSE [values |-> values, extras |-> extras,
               err |-> "TypeError: is immutable", saw |-> FALSE]
    ELSE IF ~strict
         THEN [values |-> values, extras |-> [extras EXCEPT ![key] = value],
               err |-> "none", saw |-> FALSE]
         ELSE [values |-> values, extras |-> extras,
               err |-> "ValueError: is not a field", saw |-> FALSE]

\* __setitem__(key, value)
SetItemOf(key, value) ==
    IF OdHas(values, key) THEN SetAttrOf(key, value)
    ELSE [values |-> values, extras |-> extras,
          err |-> "KeyError: is not a key", saw |-> FALSE]

\* __delitem__ removing the key instead of resetting it
DelItemOfRemoving(key) ==
    IF ~mutable
    THEN [values |-> values, err |-> "TypeError: is immutable"]
    ELSE [values |-> OdFilterOut(values, {key}), err |-> "none"]

\* __delitem__(key)
DelItemOf(key) ==
    IF ~mutable
    THEN [values |-> values, err |-> "TypeError: is immutable"]
    ELSE [values |-> OdSet(values, key, UNSET), err |-> "none"]

\* update(data)
UpdateOf(data) ==
    LET kept == OdFilterIn(data, OdKeySet(values)) IN
    IF strict /\ Len(data) # Len(kept)
    THEN [values |-> values, err |-> "ValueError: Invalid fields"]
    ELSE [values |-> OdUpdate(values, kept), err |-> "none"]

\* self.__values__.items(): a view of the pairs, not a mapping
ItemsView(od) == [shape |-> "odict_items", pairs |-> od]

\* c(**x): the call itself raises when x is not a mapping
CallWithKeywords(c, x) ==
    IF x.shape # "mapping"
    THEN [values |-> << >>, err |-> "TypeError: argument after ** must be a mapping",
          saw |-> FALSE]
    ELSE SquemaInit(c, << >>, x.pairs)

\* copy()
CopyOf == CallWithKeywords(cls, ItemsView(values))

\* __eq__(item) for an item of class c with the given __values__
EqualTo(c, vals) == c = cls /\ Repr(c, vals) = Repr(cls, values)

-----------------------------------------------------------------------------
(* The calls a program makes *)

SeqsUpTo(S, n) == UNION {[1..m -> S] : m \in 0..n}

\* keyword arguments, or the mapping given to update(): at most n pairs with
\* distinct names, in the order the caller wrote them
Mappings(n) ==
    {s \in SeqsUpTo([k : Names, v : RawVals], n) :
        \A i, j \in 1..Len(s) : s[i].k = s[j].k => i = j}

\* the arguments of a constructor call: positional values, or named values,
\* or (the call __init__ rejects at once) one of each
CallShapes ==
    {<<args, << >>>> : args \in SeqsUpTo(RawVals, MaxArgs)}
    \cup {<< << >>, kwargs>> : kwargs \in Mappings(MaxKw)}
    \cup {<< <<v>>, <<[k |-> n, v |-> v]>> >> : n \in Names, v \in RawVals}

\* the values encode() is called with directly
EncVals == {"d1", "ent", "ch", "t1", "obj", "i1", "True"}

HasUnset(s) == \E i \in 1..Len(s) : s[i] = UNSET

\* the encoder registries of the modelled configurations: the built-in
\* encoders, and the built-in ones with one more encoder registered
EncoderChoices ==
    {DefaultEncoders} \cup
    {DefaultEncoders \cup {t} : t \in {"Entity", "Squema", "TinyInt", "IntEnum", "int"}}

\* A class with its __config__, no instance yet
ClassDefined ==
    /\ cls \in Classes
    /\ strict \in BOOLEAN
    /\ mutable \in BOOLEAN
    /\ pc = "class"
    /\ values = << >>
    /\ extras = [n \in Undeclared |-> Missing]
    /\ last = NoCall
    /\ sawUnset = FALSE

Init ==
    /\ ClassDefined
    /\ encoders = DefaultEncoders

\* a constructor that attaches a named value that is no field to the instance
ConstructAttaching(args, kwargs) ==
    /\ pc = "class"
    /\ LET r == SquemaInit(cls, args, kwargs) IN
       /\ pc' = IF r.err = "none" THEN "live" ELSE "failed"
       /\ values' = r.values
       /\ last' = [NoCall EXCEPT !.op = "init", !.call = <<args, kwargs>>,
                                 !.err = r.err]
       /\ sawUnset' = (sawUnset \/ r.saw)
       /\ extras' = [n \in Undeclared |->
                       IF r.err = "none" /\ args = << >> /\ OdHas(kwargs, n)
                       THEN OdGet(kwargs, n) ELSE extras[n]]
    /\ UNCHANGED <<cls, strict, mutable, encoders>>

\* instance = cls(*args, **kwargs)
Construct(args, kwargs) ==
    /\ pc = "class"
    /\ LET r == SquemaInit(cls, args, kwargs) IN
       /\ pc' = IF r.err = "none" THEN "live" ELSE "failed"
       /\ values' = r.values
       /\ last' = [NoCall EXCEPT !.op = "init", !.call = <<args, kwargs>>,
                                 !.err = r.err]
       /\ sawUnset' = (sawUnset \/ r.saw)
    /\ UNCHANGED <<cls, strict, mutable, encoders, extras>>

\* instance.key = value
SetAttr(key, value) ==
    /\ pc = "live"
    /\ LET r == SetAttrOf(key, value) IN
       /\ values' = r.values
       /\ extras' = r.extras
       /\ last' = [NoCall EXCEPT !.op = "setattr", !.err = r.err]
       /\ sawUnset' = (sawUnset \/ r.saw)
    /\ UNCHANGED <<cls, strict, mutable, encoders, pc>>

\* instance[key] = value
SetItem(key, value) ==
    /\ pc = "live"
    /\ LET r == SetItemOf(key, value) IN
       /\ values' = r.values
       /\ extras' = r.extras
       /\ last' = [NoCall EXCEPT !.op = "setitem", !.err = r.err]
       /\ sawUnset' = (sawUnset \/ r.saw)
    /\ UNCHANGED <<cls, strict, mutable, encoders, pc>>

\* del instance[key]
DelItem(key) ==
    /\ pc = "live"
    /\ LET r == DelItemOf(key) IN
       /\ values' = r.values
       /\ last' = [NoCall EXCEPT !.op = "delitem", !.err = r.err]
    /\ UNCHANGED <<cls, strict, mutable, encoders, pc, extras, sawUnset>>

\* instance.update(data)
Update(data) ==
    /\ pc = "live"
    /\ LET r == UpdateOf(data) IN
       /\ values' = r.values
       /\ last' = [NoCall EXCEPT !.op = "update", !.err = r.err]
    /\ UNCHANGED <<cls, strict, mutable, encoders, pc, extras, sawUnset>>

\* str(instance)
Str ==
    /\ pc = "live"
    /\ LET r == StrOfInstance IN
       /\ last' = [NoCall EXCEPT !.op = "str", !.err = r.err]
       /\ sawUnset' = (sawUnset \/ HasUnset(r.calls))
    /\ UNCHANGED <<cls, strict, mutable, encoders, pc, values, extras>>

\* instance.copy()
Copy ==
    /\ pc = "live"
    /\ LET r == CopyOf IN
       /\ last' = [NoCall EXCEPT !.op = "copy", !.err = r.err,
                                 !.res = IF r.err # "none" THEN ""
                                         ELSE IF EqualTo(cls, r.values) THEN "equal"
                                         ELSE "unequal"]
       /\ sawUnset' = (sawUnset \/ r.saw)
    /\ UNCHANGED <<cls, strict, mutable, encoders, pc, values, extras>>

Next ==
    \/ \E call \in CallShapes : Construct(call[1], call[2])
    \/ \E key \in Names, value \in RawVals : SetAttr(key, value)
    \/ \E key \in Names, value \in RawVals : SetItem(key, value)
    \/ \E key \in Names : DelItem(key)
    \/ \E data \in Mappings(MaxData) : Update(data)
    \/ Str
    \/ Copy

Spec == Init /\ [][Next]_vars

-----------------------------------------------------------------------------
(* encode as a function of the class's encoder registry and the value *)

EncodeInit ==
    /\ ClassDefined
    /\ encoders \in EncoderChoices

\* cls.encode(value)
Encode(value) ==
    /\ LET r == EncodeOf(value) IN
       last' = [NoCall EXCEPT !.op = "encode", !.arg = value, !.err = r.err,
                              !.via = r.via, !.enc = r.enc, !.res = r.res]
    /\ UNCHANGED <<cls, strict, mutable, encoders, pc, values, extras, sawUnset>>

EncodeNext == \E value \in EncVals : Encode(value)

EncodeSpec == EncodeInit /\ [][EncodeNext]_vars

-----------------------------------------------------------------------------
(* Properties *)

FieldNames == OdKeySet(Fields)

Immutable == "TypeError: is immutable"

\* C1: on an instance that is not mutable, every attribute-style and every
\* mapping-style write to a declared field and every deletion of a declared
\* field raises the immutability error and leaves __values__ as it was.
C1_ImmutableWritesRaise ==
    [][(pc = "live" /\ ~mutable /\ last'.op \in {"setattr", "setitem", "delitem"}) =>
         \A key \in FieldNames :
            /\ \A value \in RawVals :
                  (SetAttr(key, value) \/ SetItem(key, value)) =>
                     (last'.err = Immutable /\ values' = values)
            /\ DelItem(key) => (last'.err = Immutable /\ values' = values)]_vars

\* A mapping-style write to an immutable instance has raised.
C1_Witness ==
    /\ pc = "live" /\ ~mutable
    /\ last.op = "setitem" /\ last.err = Immutable

\* C2: on a mutable instance a write to a declared field stores what
\* __getval__ returns for the value (and stores nothing when it raises); a
\* deletion of a declared field sets it to UNSET and keeps the key, so the
\* length is unchanged and a read of the field returns UNSET.
C2_MutableWritesCoerce ==
    [][(pc = "live" /\ mutable /\ last'.op \in {"setattr", "setitem", "delitem"}) =>
         \A key \in FieldNames :
            /\ \A value \in RawVals :
                  (SetAttr(key, value) \/ SetItem(key, value)) =>
                     IF GetVal(key, value).err = "none"
                     THEN /\ last'.err = "none"
                          /\ OdGet(values', key) = GetVal(key, value).val
                          /\ IsInstance(OdGet(values', key), OdGet(Annotations, key))
                     ELSE /\ last'.err = GetVal(key, value).err
                          /\ values' = values
            /\ DelItem(key) =>
                  /\ last'.err = "none"
                  /\ OdHas(values', key)
                  /\ OdGet(values', key) = UNSET
                  /\ LengthOf(values') = LengthOf(values)
                  /\ AttrReadOf(values', extras', key) = [err |-> "none", val |-> UNSET]
                  /\ GetItemOf(values', key) = [err |-> "none", val |-> UNSET]]_vars

\* A Sub instance whose "when" holds the decoded date (a string was assigned
\* or supplied) and whose "number", which has a default, was deleted.
C2_Witness ==
    /\ pc = "live" /\ mutable /\ cls = "Sub"
    /\ last.op = "delitem" /\ last.err = "none"
    /\ OdGet(values, "when") = "d1"
    /\ OdGet(values, "number") = UNSET
    /\ Length = 2

\* the (name, value) pairs a constructor call supplies
Supplied(call) ==
    IF call[1] # << >> THEN Zip(OdKeys(Fields), call[1]) ELSE call[2]

\* the call passes the checks made before the loop, and the loop processes
\* every supplied value
AllProcessed(call) ==
    /\ ~(call[1] # << >> /\ call[2] # << >>)
    /\ ~(strict /\ Len(call[1]) > Len(Fields))
    /\ \A i \in 1..Len(Supplied(call)) :
          /\ Supplied(call)[i].k \in FieldNames \/ ~strict
          /\ Supplied(call)[i].k \in FieldNames =>
                GetVal(Supplied(call)[i].k, Supplied(call)[i].v).err = "none"

\* C3: with a strict policy, a constructor call (positional or named values)
\* raises the too-many-arguments error when it has more positional values
\* than fields, raises the missing-field error when a field still holds UNSET
\* after all supplied values were processed, and so returns only instances
\* with no field holding UNSET.
C3_StrictConstruction ==
    [][(pc = "class" /\ strict) =>
         \A call \in CallShapes :
            Construct(call[1], call[2]) =>
               /\ (call[2] = << >> /\ Len(call[1]) > Len(Fields)) =>
                     last'.err = "ValueError: Too many arguments"
               /\ (AllProcessed(call) /\ Empty(values') # {}) =>
                     last'.err = "ValueError: Missing value"
               /\ pc' = "live" => (Empty(values') = {} /\ OdKeySet(values') = FieldNames)]_vars

\* A strict construction has raised the missing-field error.
C3_Witness ==
    /\ strict /\ pc = "failed"
    /\ last.op = "init" /\ last.err = "ValueError: Missing value"
    /\ Empty(values) # {}

\* C4: the key set of the instance's __values__ is exactly the key set of
\* its class's field table, whatever calls were made.
C4_KeysAreFieldTableKeys ==
    pc = "live" => OdKeySet(values) = FieldNames

\* the names of the model that follow the reserved dunder convention
DunderNames == {"__string__"}

RECURSIVE TypeDeclared(_, _)
\* the name is type-declared in the class or in an inherited schema base
TypeDeclared(c, name) ==
    /\ c \in Classes
    /\ \/ OdHas(ClassAnnotations(c), name)
       \/ \E i \in 1..Len(ClassBases(c)) : TypeDeclared(ClassBases(c)[i], name)

AllNames ==
    UNION {OdKeySet(ClassAnnotations(c)) \cup OdKeySet(ClassNamespace(c)) : c \in Classes}

\* C5: the field table holds a name if and only if the name is type-declared
\* (in the class or an inherited schema base) and is no dunder name; so a
\* dunder name is not counted by the length of a new instance and is no key
\* of its __values__.
C5_FieldTableMembership ==
    /\ \A c \in Classes, name \in AllNames :
          OdHas(MetaSquemaFields(c), name) <=>
             (TypeDeclared(c, name) /\ name \notin DunderNames)
    /\ (pc = "live" /\ last.op = "init") =>
          /\ \A name \in DunderNames : ~OdHas(values, name)
          /\ Length = Cardinality({name \in AllNames :
                                      TypeDeclared(cls, name) /\ name \notin DunderNames})


\* what instance.name gives when the instance's __dict__ does not hold name
ClassOrFieldRead(vals, name) ==
    IF OdHas(ClassAttributes(cls), name)
    THEN [err |-> "none", val |-> OdGet(ClassAttributes(cls), name)]
    ELSE DunderGetAttrOf(vals, name)

\* C6: in non-strict mode a named constructor value that is no
\* declared field does not make construction fail, is absent from the keys,
\* makes instance[name] raise the not-a-key error, and instance.name returns
\* the supplied value.
C6_UnknownNamedValueAttached ==
    [][(pc = "class" /\ ~strict) =>
         \A call \in CallShapes :
            (Construct(call[1], call[2]) /\ call[1] = << >>) =>
               \A i \in 1..Len(call[2]) :
                  call[2][i].k \notin FieldNames =>
                     /\ last'.err # "AttributeError: not a valid attribute"
                     /\ pc' = "live" =>
                           /\ call[2][i].k \notin Range(KeysOf(values'))
                           /\ GetItemOf(values', call[2][i].k).err = "KeyError: is not a key"
                           /\ AttrReadOf(values', extras', call[2][i].k) =
                                 [err |-> "none", val |-> call[2][i].v]]_vars

\* C6, with the value dropped instead: in non-strict mode a named constructor
\* value that is no declared field does not make construction fail, is
\* absent from the keys, makes instance[name] raise the not-a-key error, and
\* leaves the instance's __dict__ as it was, so that instance.name raises the
\* not-an-attribute error (unless the class itself has an attribute of that
\* name, which is then what is read).
C6_UnknownNamedValueDropped ==
    [][(pc = "class" /\ ~strict) =>
         \A call \in CallShapes :
            (Construct(call[1], call[2]) /\ call[1] = << >>) =>
               \A i \in 1..Len(call[2]) :
                  call[2][i].k \notin FieldNames =>
                     /\ last'.err # "AttributeError: not a valid attribute"
                     /\ extras' = extras
                     /\ pc' = "live" =>
                           /\ call[2][i].k \notin Range(KeysOf(values'))
                           /\ GetItemOf(values', call[2][i].k).err = "KeyError: is not a key"
                           /\ AttrReadOf(values', extras', call[2][i].k) =
                                 ClassOrFieldRead(values', call[2][i].k)
                           /\ ~OdHas(ClassAttributes(cls), call[2][i].k) =>
                                 AttrReadOf(values', extras', call[2][i].k).err =
                                    "AttributeError: is not an attribute"]_vars

\* A non-strict construction given extra=... has returned, and instance.extra
\* raises.
C6_Witness ==
    /\ ~strict /\ pc = "live" /\ last.op = "init"
    /\ last.call[1] = << >> /\ OdHas(last.call[2], "extra")
    /\ "extra" \notin Range(Keys)
    /\ AttrRead("extra").err = "AttributeError: is not an attribute"

\* C7: copy() returns, without raising, an instance equal to the original.
C7_CopyReturnsEqual ==
    last.op = "copy" => (last.err = "none" /\ last.res = "equal")

\* C8: encode(v) uses the encoder of v's exact type if one is registered;
\* else, for a schema instance, the mapping of its items; else the encoder
\* of an ancestor type, direct or transitive; and fails only when v is no
\* schema instance and neither its type nor any ancestor has an encoder.
C8_EncodeResolution ==
    last.op = "encode" =>
       LET t == TypeOf(last.arg)
           schema == IsInstance(last.arg, "Squema")
       IN /\ t \in encoders => (last.via = "exact" /\ last.enc = t)
          /\ (t \notin encoders /\ schema) => last.via = "schema"
          /\ (t \notin encoders /\ ~schema /\ Ancestors(t) \cap encoders # {}) =>
                (last.via = "base" /\ last.enc \in Ancestors(t) \cap encoders)
          /\ last.err # "none" =>
                (~schema /\ ({t} \cup Ancestors(t)) \cap encoders = {})

\* C9: when the caller never passes UNSET itself, no call of __getval__ and
\* no call of encode receives UNSET.
C9_SentinelNeverSeen == ~sawUnset

\* A strict, mutable instance with a deleted field has been rendered.
C9_Witness ==
    /\ pc = "live" /\ strict /\ mutable
    /\ last.op = "str" /\ last.err = "none"
    /\ Empty(values) # {}

\* C10: on an instance that is not mutable, no call changes the stored value
\* of a declared field.
C10_ImmutableIsFrozen ==
    [][(pc = "live" /\ ~mutable) =>
         \A name \in FieldNames : OdGet(values', name) = OdGet(values, name)]_vars

=============================================================================
